---- MODULE Spec2Model ----
(***************************************************************************)
(* serveradmin: the creation pipeline (dataset/create.py), the schema      *)
(* administration views and restore_deleted (serverdb/views.py), over the  *)
(* schema tables, the lookups cache, the object store and the audit trail. *)
(***************************************************************************)
EXTENDS Integers, Sequences, FiniteSets, TLC

\* ---------------------------------------------------------------- bounds
MaxCalls == 2
MaxSchemaOps == 1
MaxDeletes == 1
MaxAdminOps == 2
MaxApiCalls == 2

Calls == 1..MaxCalls

\* The add-form sessions of manage_servertype_attr.
AddForms == 1..MaxAdminOps

\* ------------------------------------------------------------ value model
\* Python's None, and a key that is not in a mapping.
None == "<None>"

Get(m, k) == IF k \in DOMAIN m THEN m[k] ELSE None

\* Python truthiness of a string-or-None value (create.py:63 `if segment_id:`).
Truthy(v) == v # None /\ v # ""

\* m without the keys of ks (create.py:85-86 `del real_attributes[key]`).
Without(m, ks) == [k \in (DOMAIN m) \ ks |-> m[k]]

\* ipaddress.ip_address on the textual addresses the requests use: the
\* address as a number (the leading octet 10 dropped).
ip_address(text) ==
    CASE text = "10.0.0.5" -> 5
      [] text = "10.0.1.7" -> 263
      [] OTHER -> 592137

\* str() of a typed address, as json_encode_extra writes it into a snapshot.
IpText(ip) ==
    CASE ip = 5 -> "10.0.0.5"
      [] ip = 263 -> "10.0.1.7"
      [] OTHER -> "10.9.9.9"

\* The IPRange table in the order the store returns its rows.
\* 10.0.0.0/24 -> seg1 lies inside 10.0.0.0/16 -> seg2.
IPRanges ==
    << [min |-> 0, max |-> 255, segment |-> "seg1"],
       [min |-> 0, max |-> 65535, segment |-> "seg2"] >>

\* The configured regular expression of the model and what it matches.
Pattern == "^ok$"

RegexpMatch(regexp, val) == regexp = Pattern /\ val = "ok"

\* str.split(',') on the default strings the schema forms use.
SplitComma(s) ==
    CASE s = "d1,d2" -> <<"d1", "d2">>
      [] OTHER -> <<s>>

\* ------------------------------------------------------------ the schema
\* Attribute rows an administrator can add (name, type, multi).
AttributeForms ==
    { [name |-> "os", type |-> "string", multi |-> FALSE],
      [name |-> "comment", type |-> "string", multi |-> FALSE],
      [name |-> "tags", type |-> "string", multi |-> TRUE] }

AttrNames == {a.name : a \in AttributeForms}

ServertypeNames == {"vm", "hw", "db"}

\* The form data of manage_servertype_attr: required, attrib_default, regex.
LinkForms ==
    { [required |-> TRUE, attrib_default |-> "", regex |-> Pattern],
      [required |-> TRUE, attrib_default |-> "ok", regex |-> None],
      [required |-> FALSE, attrib_default |-> "d1,d2", regex |-> None] }

VARIABLES
    dbServertypes,  \* ServerType table: set of names
    dbAttributes,   \* Attribute table: set of rows [name, type, multi]
    dbLinks,        \* ServerTypeAttributes table: set of rows
    lookups,        \* the cached schema snapshot of dataset.base.lookups
    cacheVersion,   \* whether cache key 'dataset_lookups_version' is set
    servers,        \* ServerObject table with the attribute values: id -> row
    nextId,         \* the store's next generated server_id
    commits,        \* ChangeCommit table: sequence of rows [app, user]
    adds,           \* ChangeAdd table: set of rows [commit, hostname, attributes_json]
    deleted,        \* Change rows: the 'deleted' snapshots of the audit trail
    call,           \* the create_server calls: call id -> locals and position
    schemaOps,      \* number of schema requests made
    nDeletes,       \* number of deletions made
    schemaBudget,   \* number of schema requests the administrators make
    addForm,        \* the AddForm POSTs of manage_servertype_attr in flight
    apiLog          \* the api_call requests answered: their outcomes

vars == << dbServertypes, dbAttributes, dbLinks, lookups, cacheVersion,
           servers, nextId, commits, adds, deleted, call, schemaOps, nDeletes,
           schemaBudget, addForm, apiLog >>

schemaVars == << dbServertypes, dbAttributes, dbLinks >>

storeVars == << servers, nextId >>

auditVars == << commits, adds, deleted >>

adminVars == << schemaOps, schemaBudget, addForm >>

\* The schema as the tables hold it now.
DbSchema ==
    [servertypes |-> dbServertypes, attributes |-> dbAttributes,
     stype_attrs |-> dbLinks]

\* A read of lookups: the cached snapshot while the version key is set, a
\* full reload from the tables after an invalidation.
LookupsRead == IF cacheVersion THEN lookups ELSE DbSchema

\* views.py:273 _clear_lookups
ClearLookups == cacheVersion' = FALSE /\ UNCHANGED lookups

\* lookups.attributes[name]
AttributeOf(lk, name) == CHOOSE a \in lk.attributes : a.name = name

\* servertype.attributes: the attributes linked to the servertype.
ServertypeAttributeNames(lk, stype) ==
    {l.attrib : l \in {x \in lk.stype_attrs : x.servertype = stype}}
        \cap {a.name : a \in lk.attributes}

\* lookups.stype_attrs[(servertype.pk, attribute.pk)]
StypeAttr(lk, stype, attr) ==
    CHOOSE l \in lk.stype_attrs : l.servertype = stype /\ l.attrib = attr

\* --------------------------------------------- create_server, lines 33-145
\* create.py:77-84: the keys taken out of real_attributes.
StrippedKeys ==
    {"hostname", "intern_ip", "comment", "servertype", "segment", "project"}

\* create.py:33-40: the keys whose absence is a CommitError.
RequiredKeys == {"hostname", "servertype", "project", "intern_ip"}

EmptyMap == [k \in {} |-> None]

\* create.py:196-203 _type_cast_default (typecast of a string is the string).
TypeCastDefault(attribute, value) ==
    IF attribute.multi THEN SplitComma(value) ELSE value

\* `stype_attr.default not in ('', None)`
HasDefault(stype_attr) == stype_attr.attrib_default \notin {"", None}

\* create.py:67-70: the IP ranges containing intern_ip, in store order.
MatchingRanges(intern_ip) ==
    SelectSeq(IPRanges, LAMBDA r : r.min <= intern_ip /\ r.max >= intern_ip)

\* SegmentId taking the last containing range instead of the first.
LastRangeSegment(attributes, intern_ip) ==
    IF Truthy(Get(attributes, "segment")) THEN attributes["segment"]
    ELSE IF MatchingRanges(intern_ip) = <<>> THEN None
    ELSE MatchingRanges(intern_ip)[Len(MatchingRanges(intern_ip))].segment

\* create.py:61-72: the segment of the new object; None stands for the
\* IndexError that becomes CommitError('Could not determine segment').
SegmentId(attributes, intern_ip) ==
    IF Truthy(Get(attributes, "segment")) THEN attributes["segment"]
    ELSE IF MatchingRanges(intern_ip) = <<>> THEN None
    ELSE Head(MatchingRanges(intern_ip)).segment

\* ServertypeKnown taking every name for a servertype of the registry.
AnyServertypeKnown(lk, stype) == TRUE

\* create.py:45 `attributes[u'servertype'] in lookups.servertypes`
ServertypeKnown(lk, stype) == stype \in lk.servertypes

\* create.py:94-117: the declared attributes absent from the input that the
\* loop fills in.
FilledKeys(lk, stype, real0, fill_defaults, fill_defaults_all) ==
    {a \in ServertypeAttributeNames(lk, stype) \ DOMAIN real0 :
        LET attribute == AttributeOf(lk, a)
            stype_attr == StypeAttr(lk, stype, a)
        IN  \/ attribute.multi
            \/ /\ ~attribute.multi
               /\ stype_attr.required
               /\ fill_defaults /\ HasDefault(stype_attr)
            \/ /\ ~attribute.multi
               /\ ~stype_attr.required
               /\ fill_defaults_all /\ HasDefault(stype_attr)}

\* create.py:96-115: the value a filled-in attribute gets.
FilledValue(lk, stype, a) ==
    LET attribute == AttributeOf(lk, a)
        stype_attr == StypeAttr(lk, stype, a)
    IN  IF attribute.multi /\ ~HasDefault(stype_attr) THEN <<>>
        ELSE TypeCastDefault(attribute, stype_attr.attrib_default)

\* create.py:76-119: real_attributes when the loop has run.
RealAttributes(lk, stype, attributes, fill_defaults, fill_defaults_all) ==
    LET real0 == Without(attributes, StrippedKeys)
        filled == FilledKeys(lk, stype, real0, fill_defaults, fill_defaults_all)
    IN  [k \in DOMAIN real0 \cup filled |->
            IF k \in DOMAIN real0 THEN real0[k] ELSE FilledValue(lk, stype, k)]

\* create.py:101-109: violations_required (as the set of its entries).
ViolationsRequired(lk, stype, attributes, fill_defaults) ==
    {a \in ServertypeAttributeNames(lk, stype)
            \ DOMAIN Without(attributes, StrippedKeys) :
        LET attribute == AttributeOf(lk, a)
            stype_attr == StypeAttr(lk, stype, a)
        IN  /\ ~attribute.multi
            /\ stype_attr.required
            /\ ~(fill_defaults /\ HasDefault(stype_attr))}

\* create.py:119-131: violations_regexp (as the set of its entries).
ViolationsRegexp(lk, stype, real) ==
    {a \in ServertypeAttributeNames(lk, stype) \cap DOMAIN real :
        LET attribute == AttributeOf(lk, a)
            regexp == StypeAttr(lk, stype, a).regex
        IN  /\ attribute.type = "string"
            /\ regexp # None
            /\ IF attribute.multi
               THEN \E i \in 1..Len(real[a]) : ~RegexpMatch(regexp, real[a][i])
               ELSE ~RegexpMatch(regexp, real[a])}

\* ViolationsAttribs with the check of lines 136-138 left out.
NoAttribViolations(lk, stype, real) == {}

\* create.py:133-138: violations_attribs (as the set of its entries).
ViolationsAttribs(lk, stype, real) ==
    DOMAIN real \ ServertypeAttributeNames(lk, stype)

\* dataset.validation.handle_violations: whether it raises ValidationError.
HandleViolationsRaises(skip_validation, regexp, required, attribs) ==
    ~skip_validation /\ (regexp # {} \/ required # {} \/ attribs # {})

\* ------------------------------------------------------------- requests
Base(hostname, ip) ==
    [k \in RequiredKeys |->
        CASE k = "hostname" -> hostname
          [] k = "servertype" -> "vm"
          [] k = "project" -> "p1"
          [] OTHER -> ip]

With(m, k, v) == [x \in DOMAIN m \cup {k} |-> IF x = k THEN v ELSE m[x]]

Request(attributes, skip_validation, fill_defaults, fill_defaults_all) ==
    [attributes |-> attributes, skip_validation |-> skip_validation,
     fill_defaults |-> fill_defaults, fill_defaults_all |-> fill_defaults_all]

\* The create requests the API clients of the model send (dataset_create).
Requests ==
    { Request(Base("h1", "10.0.0.5"), FALSE, TRUE, FALSE),
      Request(Base("h1", "10.0.0.5"), FALSE, FALSE, TRUE),
      Request(With(Base("h1", "10.0.1.7"), "os", "ok"), FALSE, FALSE, FALSE),
      Request(With(Base("h2", "10.0.1.7"), "os", "bad"), FALSE, FALSE, FALSE),
      Request(With(With(Base("h2", "10.0.0.5"), "os", "ok"), "comment", "c1"),
              FALSE, FALSE, FALSE),
      Request(With(With(Base("h1", "10.0.0.5"), "os", "ok"), "comment", "c1"),
              FALSE, TRUE, TRUE),
      Request(With(With(Base("h1", "10.0.0.5"), "os", "ok"), "tags", <<"t1">>),
              FALSE, FALSE, FALSE),
      Request(With(Base("h1", "10.0.0.5"), "tags", <<"t1">>), TRUE, FALSE, FALSE),
      Request(Base("h2", "10.0.1.7"), TRUE, FALSE, FALSE),
      Request(With(With(Base("h2", "10.9.9.9"), "os", "ok"), "segment", "seg9"),
              FALSE, FALSE, FALSE),
      Request(With(With(Base("h2", "10.0.0.5"), "os", "ok"), "segment", ""),
              FALSE, FALSE, FALSE),
      Request(With(Base("h2", "10.9.9.9"), "os", "ok"), FALSE, FALSE, FALSE),
      Request(With(With(Base("h2", "10.0.1.7"), "servertype", "hw"), "os", "ok"),
              FALSE, FALSE, FALSE),
      Request(Without(Base("h1", "10.0.0.5"), {"project"}), TRUE, FALSE, FALSE),
      Request(With(Base("h1", "10.0.0.5"), "servertype", "nope"),
              TRUE, FALSE, FALSE) }

\* ------------------------------------------------------------ the calls
Idle ==
    [pc |-> "idle", via |-> None, attributes |-> EmptyMap,
     skip_validation |-> FALSE, fill_defaults |-> FALSE,
     fill_defaults_all |-> FALSE, app |-> None, change |-> 0,
     hostname |-> None, intern_ip |-> 0, segment_id |-> None,
     servertype_id |-> None, project_id |-> None,
     real_attributes |-> EmptyMap, violations_regexp |-> {},
     violations_required |-> {}, violations_attribs |-> {},
     server_id |-> 0, commit |-> 0, error |-> None]

Finished(c) == call[c].pc \in {"done", "failed"}

\* An AddForm session that has not posted.
NoForm == [pc |-> "idle", stype |-> None, attrib |-> None, form |-> None]

\* The tables, the cache, the calls and the sessions at start.
Start ==
    /\ dbServertypes = {"vm", "hw"}
    /\ dbAttributes = {a \in AttributeForms : a.name \in {"os", "comment"}}
    /\ dbLinks =
          { [servertype |-> "vm", attrib |-> "os", required |-> TRUE,
             attrib_default |-> "ok", regex |-> Pattern],
            [servertype |-> "hw", attrib |-> "os", required |-> FALSE,
             attrib_default |-> "", regex |-> None] }
    /\ lookups = [servertypes |-> {}, attributes |-> {}, stype_attrs |-> {}]
    /\ cacheVersion = FALSE
    /\ servers = EmptyMap
    /\ nextId = 1
    /\ commits = <<>>
    /\ adds = {}
    /\ deleted = {}
    /\ call = [c \in Calls |-> Idle]
    /\ schemaOps = 0
    /\ nDeletes = 0
    /\ addForm = [r \in AddForms |-> NoForm]
    /\ apiLog = << >>

Init == Start /\ schemaBudget = MaxSchemaOps

\* create_server up to handle_violations (create.py:33-145), run by call c
\* on request req; from line 45 on it reads lookups, which reloads after an
\* invalidation. Calls are numbered in the order they start.
CreateServerBegin(c, via, change, req, app) ==
    LET lk == LookupsRead
        attributes == req.attributes
        skip_validation == req.skip_validation
        fill_defaults == req.fill_defaults
        fill_defaults_all == req.fill_defaults_all
        started == [Idle EXCEPT !.via = via, !.attributes = attributes,
                       !.skip_validation = skip_validation,
                       !.fill_defaults = fill_defaults,
                       !.fill_defaults_all = fill_defaults_all,
                       !.app = app, !.change = change]
        Fail(kind) == [started EXCEPT !.pc = "failed", !.error = kind]
        stype == Get(attributes, "servertype")
        intern_ip == ip_address(attributes["intern_ip"])
        segment_id == SegmentId(attributes, intern_ip)
        real == RealAttributes(lk, stype, attributes, fill_defaults,
                               fill_defaults_all)
        regexp == ViolationsRegexp(lk, stype, real)
        required == ViolationsRequired(lk, stype, attributes, fill_defaults)
        attribs == ViolationsAttribs(lk, stype, real)
        validated == [started EXCEPT !.hostname = attributes["hostname"],
                         !.intern_ip = intern_ip, !.segment_id = segment_id,
                         !.servertype_id = stype,
                         !.project_id = attributes["project"],
                         !.real_attributes = real,
                         !.violations_regexp = regexp,
                         !.violations_required = required,
                         !.violations_attribs = attribs]
    IN  /\ call[c].pc = "idle"
        /\ \A d \in Calls : d < c => call[d].pc # "idle"
        /\ IF RequiredKeys \subseteq DOMAIN attributes
           THEN lookups' = lk /\ cacheVersion' = TRUE
           ELSE UNCHANGED << lookups, cacheVersion >>
        /\ call' = [call EXCEPT ![c] =
              IF ~(RequiredKeys \subseteq DOMAIN attributes)
                  THEN Fail("CommitError")
              ELSE IF ~ServertypeKnown(lk, stype) THEN Fail("CommitError")
              ELSE IF segment_id = None THEN Fail("CommitError")
              ELSE IF HandleViolationsRaises(skip_validation, regexp, required,
                                             attribs)
                  THEN [validated EXCEPT !.pc = "failed",
                                         !.error = "ValidationError"]
              ELSE [validated EXCEPT !.pc = "check"]]
        /\ UNCHANGED << schemaVars, storeVars, auditVars, adminVars, apiLog, nDeletes >>

\* api/views.py:125-145 dataset_create: create_server for the calling app.
DatasetCreate(c) ==
    \E req \in Requests :
        CreateServerBegin(c, "api", 0, req, "app1")

\* serverdb/views.py:255-266 restore_deleted: create_server on the snapshot
\* of a deleted object, validation skipped, no defaults, no app or user.
RestoreDeleted(c) ==
    \E d \in deleted :
        CreateServerBegin(c, "restore", d.server_id,
                          Request(d.snapshot, TRUE, FALSE, FALSE), None)

\* The exception classes the `except ValidationError` of the API views
\* catches: ValidationError and its subclass CommitError.
IsValidationError(error) == error \in {"ValidationError", "CommitError"}

\* api/views.py:147-158: what dataset_create returns for call c once
\* create_server has ended; an exception the except clause does not catch
\* leaves the view (status "raised").
DatasetCreateResult(c) ==
    IF call[c].pc = "done" THEN [status |-> "success", type |-> None]
    ELSE IF IsValidationError(call[c].error)
        THEN [status |-> "error", type |-> call[c].error]
    ELSE [status |-> "raised", type |-> call[c].error]

\* create.py:172-173: the hostname-uniqueness check of _insert_server.
HostnameExists(hostname) ==
    \E i \in DOMAIN servers : servers[i].hostname = hostname

CheckHostname(c) ==
    /\ call[c].pc = "check"
    /\ call' = [call EXCEPT ![c] =
          IF HostnameExists(call[c].hostname)
          THEN [@ EXCEPT !.pc = "failed", !.error = "CommitError"]
          ELSE [@ EXCEPT !.pc = "insert"]]
    /\ UNCHANGED << schemaVars, lookups, cacheVersion, storeVars, auditVars,
                    adminVars, apiLog, nDeletes >>

\* create.py:175-181: ServerObject.objects.create writes the row.
InsertRow(c) ==
    /\ call[c].pc = "insert"
    /\ servers' = With(servers, nextId,
          [hostname |-> call[c].hostname, intern_ip |-> call[c].intern_ip,
           project |-> call[c].project_id,
           servertype |-> call[c].servertype_id,
           segment |-> call[c].segment_id, attributes |-> EmptyMap])
    /\ nextId' = nextId + 1
    /\ call' = [call EXCEPT ![c].pc = "attrs", ![c].server_id = nextId]
    /\ UNCHANGED << schemaVars, lookups, cacheVersion, auditVars, adminVars, apiLog,
                    nDeletes >>

\* create.py:183-190: the values server.add_attribute stores for the mapping
\* (a multi attribute stores one value per element, so none for []).
StoredValues(lk, attributes) ==
    [k \in {a \in DOMAIN attributes :
                AttributeOf(lk, a).multi => attributes[a] # <<>>}
        |-> attributes[k]]

\* create.py:183-194: the attribute values are added and the object saved;
\* lookups.attributes[attr_name] raises KeyError for a name the registry
\* does not hold, and the row written by line 175 stays.
AddAttributes(c) ==
    LET lk == LookupsRead
        real == call[c].real_attributes
    IN  /\ call[c].pc = "attrs"
        /\ IF DOMAIN real # {}
           THEN lookups' = lk /\ cacheVersion' = TRUE
           ELSE UNCHANGED << lookups, cacheVersion >>
        /\ IF DOMAIN real \subseteq {a.name : a \in lk.attributes}
           THEN /\ servers' = [servers EXCEPT ![call[c].server_id].attributes =
                                  StoredValues(lk, real)]
                /\ call' = [call EXCEPT ![c].pc = "audit"]
           ELSE /\ servers' = servers
                /\ call' = [call EXCEPT ![c].pc = "failed",
                                        ![c].error = "KeyError"]
        /\ UNCHANGED << schemaVars, nextId, auditVars, adminVars, apiLog, nDeletes >>

\* json.dumps(created_server, default=json_encode_extra): the members of
\* the JSON object, a typed address written as its text.
JsonDumps(m) ==
    [k \in DOMAIN m |-> IF k = "intern_ip" THEN IpText(m[k]) ELSE m[k]]

\* create.py:156-158: the mapping the Add record snapshots.
CreatedServer(real_attributes, hostname, intern_ip) ==
    [k \in DOMAIN real_attributes \cup {"hostname", "intern_ip"} |->
        CASE k = "hostname" -> hostname
          [] k = "intern_ip" -> intern_ip
          [] OTHER -> real_attributes[k]]

\* create.py:156-168: the ChangeCommit and its ChangeAdd are written.
RecordAdd(c) ==
    /\ call[c].pc = "audit"
    /\ commits' = Append(commits, [app |-> call[c].app, user |-> None])
    /\ adds' = adds \cup
          {[commit |-> Len(commits) + 1, hostname |-> call[c].hostname,
            attributes_json |->
                JsonDumps(CreatedServer(call[c].real_attributes,
                                        call[c].hostname, call[c].intern_ip))]}
    /\ call' = [call EXCEPT ![c].pc = "done", ![c].commit = Len(commits) + 1]
    /\ UNCHANGED << schemaVars, lookups, cacheVersion, storeVars, deleted,
                    adminVars, apiLog, nDeletes >>

\* commit_changes deleting one object (dataset/commit.py): the object and
\* its values leave the store, and a Change row keeps the full snapshot.
DeletedSnapshot(o) ==
    [k \in DOMAIN o.attributes \cup RequiredKeys \cup {"segment"} |->
        CASE k = "hostname" -> o.hostname
          [] k = "servertype" -> o.servertype
          [] k = "project" -> o.project
          [] k = "intern_ip" -> IpText(o.intern_ip)
          [] k = "segment" -> o.segment
          [] OTHER -> o.attributes[k]]

DeleteServer(id) ==
    /\ nDeletes < MaxDeletes
    /\ id \in DOMAIN servers
    /\ \A c \in Calls : call[c].server_id = id => Finished(c)
    /\ deleted' = deleted \cup
          {[server_id |-> id, snapshot |-> DeletedSnapshot(servers[id])]}
    /\ servers' = Without(servers, {id})
    /\ nDeletes' = nDeletes + 1
    /\ UNCHANGED << schemaVars, lookups, cacheVersion, nextId, commits, adds,
                    call, adminVars, apiLog >>

\* --------------------------------------------- schema views (views.py)
SchemaOp ==
    /\ schemaOps < schemaBudget
    /\ schemaOps' = schemaOps + 1
    /\ UNCHANGED << nextId, auditVars, call, nDeletes, schemaBudget, apiLog >>

\* views.py:52-71 add_servertype, a valid POST.
AddServertype(name) ==
    /\ SchemaOp
    /\ name \notin dbServertypes
    /\ dbServertypes' = dbServertypes \cup {name}
    /\ ClearLookups
    /\ UNCHANGED << dbAttributes, dbLinks, servers, addForm >>

\* views.py:73-86 delete_servertype, a confirmed POST; servertypes that
\* still have objects are not deleted.
DeleteServertype(name) ==
    /\ SchemaOp
    /\ name \in dbServertypes
    /\ \A i \in DOMAIN servers : servers[i].servertype # name
    /\ dbServertypes' = dbServertypes \ {name}
    /\ dbLinks' = {l \in dbLinks : l.servertype # name}
    /\ ClearLookups
    /\ UNCHANGED << dbAttributes, servers, addForm >>

\* views.py:117-124 AddForm.clean_attrib: whether the attribute is already
\* on the servertype.
LinkExists(stype, attrib) ==
    \E l \in dbLinks : l.servertype = stype /\ l.attrib = attrib

\* views.py:126-139 manage_servertype_attr, an AddForm POST by session r up
\* to form.is_valid(): clean_attrib rejects an attribute that is already on
\* the servertype, and the form is then shown again with nothing changed.
\* Sessions are numbered in the order they post.
ManageServertypeAttrClean(r, stype, attrib, form) ==
    /\ SchemaOp
    /\ addForm[r].pc = "idle"
    /\ \A q \in AddForms : q < r => addForm[q].pc # "idle"
    /\ stype \in dbServertypes
    /\ attrib \in {a.name : a \in dbAttributes}
    /\ addForm' = [addForm EXCEPT ![r] =
          [pc |-> IF LinkExists(stype, attrib) THEN "rejected" ELSE "valid",
           stype |-> stype, attrib |-> attrib, form |-> form]]
    /\ UNCHANGED << schemaVars, lookups, cacheVersion, servers >>

\* views.py:145-158 manage_servertype_attr, the valid AddForm of session r
\* is saved and the lookups cache cleared; the save fails on the foreign
\* keys if the servertype or the attribute is gone.
ManageServertypeAttrSave(r) ==
    /\ addForm[r].pc = "valid"
    /\ IF /\ addForm[r].stype \in dbServertypes
          /\ addForm[r].attrib \in {a.name : a \in dbAttributes}
       THEN /\ dbLinks' = dbLinks \cup
                  {[servertype |-> addForm[r].stype,
                    attrib |-> addForm[r].attrib,
                    required |-> addForm[r].form.required,
                    attrib_default |-> addForm[r].form.attrib_default,
                    regex |-> addForm[r].form.regex]}
            /\ ClearLookups
            /\ addForm' = [addForm EXCEPT ![r].pc = "saved"]
       ELSE /\ UNCHANGED << dbLinks, lookups, cacheVersion >>
            /\ addForm' = [addForm EXCEPT ![r].pc = "failed"]
    /\ UNCHANGED << dbServertypes, dbAttributes, storeVars, auditVars, call,
                    schemaOps, schemaBudget, nDeletes, apiLog >>

\* views.py:137-158 manage_servertype_attr, valid EditForm POST.
ManageServertypeAttrEdit(stype, attrib, form) ==
    /\ SchemaOp
    /\ \E l \in dbLinks :
          /\ l.servertype = stype /\ l.attrib = attrib
          /\ dbLinks' = (dbLinks \ {l}) \cup
                {[l EXCEPT !.required = form.required,
                           !.attrib_default = form.attrib_default,
                           !.regex = form.regex]}
    /\ ClearLookups
    /\ UNCHANGED << dbServertypes, dbAttributes, servers, addForm >>

\* ValuesDeleted taking the values of the attribute from every object.
ValuesDeletedEverywhere(attrib, stypes) ==
    [i \in DOMAIN servers |->
        [servers[i] EXCEPT !.attributes = Without(@, {attrib})]]

\* The stored values left when the values of attribute `attrib` on the
\* objects of the servertypes `stypes` are deleted.
ValuesDeleted(attrib, stypes) ==
    [i \in DOMAIN servers |->
        IF servers[i].servertype \in stypes
        THEN [servers[i] EXCEPT !.attributes = Without(@, {attrib})]
        ELSE servers[i]]

\* views.py:172-187 delete_servertype_attr, a confirmed POST: the values
\* and the link are deleted; the lookups cache is left as it is.
DeleteServertypeAttr(stype, attrib) ==
    /\ SchemaOp
    /\ \E l \in dbLinks : l.servertype = stype /\ l.attrib = attrib
    /\ servers' = ValuesDeleted(attrib, {stype})
    /\ dbLinks' = {l \in dbLinks : ~(l.servertype = stype /\ l.attrib = attrib)}
    /\ UNCHANGED << dbServertypes, dbAttributes, lookups, cacheVersion,
                    addForm >>

\* views.py:189-196 copy_servertype, a POST with a name: ServerType.copy
\* makes a servertype of that name with the same attribute links; the
\* lookups cache is left as it is.
CopyServertype(stype, name) ==
    /\ SchemaOp
    /\ stype \in dbServertypes
    /\ name \notin dbServertypes
    /\ dbServertypes' = dbServertypes \cup {name}
    /\ dbLinks' = dbLinks \cup
          {[l EXCEPT !.servertype = name] :
              l \in {x \in dbLinks : x.servertype = stype}}
    /\ UNCHANGED << dbAttributes, servers, lookups, cacheVersion, addForm >>

\* views.py:205-218 delete_attribute, a confirmed POST: the attribute goes
\* with its links and its stored values.
DeleteAttribute(name) ==
    /\ SchemaOp
    /\ name \in {a.name : a \in dbAttributes}
    /\ dbAttributes' = {a \in dbAttributes : a.name # name}
    /\ dbLinks' = {l \in dbLinks : l.attrib # name}
    /\ servers' = ValuesDeleted(name, {servers[i].servertype : i \in DOMAIN servers})
    /\ ClearLookups
    /\ UNCHANGED << dbServertypes, addForm >>

\* views.py:220-240 add_attribute, a valid POST.
AddAttribute(form) ==
    /\ SchemaOp
    /\ form.name \notin {a.name : a \in dbAttributes}
    /\ dbAttributes' = dbAttributes \cup {form}
    /\ ClearLookups
    /\ UNCHANGED << dbServertypes, dbLinks, servers, addForm >>

\* ------------------------------------------------- api_call (api/views.py)
\* str.splitlines() on the allowed_methods texts the applications have.
SplitLines(text) ==
    CASE text = "" -> << >>
      [] text = "ip.get_free\nip.gone" -> <<"ip.get_free", "ip.gone">>
      [] OTHER -> <<text>>

\* The Application rows: name, superuser, allowed_methods.
Apps ==
    { [name |-> "tool", superuser |-> FALSE,
       allowed_methods |-> "ip.get_free\nip.gone"],
      [name |-> "root", superuser |-> TRUE, allowed_methods |-> ""] }

\* AVAILABLE_API_FUNCTIONS: group -> the names of its functions.
AVAILABLE_API_FUNCTIONS == [ip |-> {"get_free", "reserve"}]

ApiData(group, name) ==
    [k \in {"group", "name", "args", "kwargs"} |->
        CASE k = "group" -> group
          [] k = "name" -> name
          [] OTHER -> << >>]

\* The request bodies the API clients of the model send to api_call.
ApiRequests ==
    { ApiData("ip", "get_free"), ApiData("ip", "gone"),
      ApiData("ip", "reserve"), ApiData("dns", "lookup"),
      ApiData("dns", "get_free"),
      Without(ApiData("ip", "get_free"), {"kwargs"}) }

\* u'{0}.{1}'.format(data['group'], data['name'])
MethodName(data) == data["group"] \o "." \o data["name"]

\* MethodAllowed with the permission check of lines 169-172 left out.
AlwaysAllowed(app, method_name) == TRUE

\* api/views.py:167-169: superuser, or method_name in allowed_methods.
MethodAllowed(app, method_name) ==
    \/ app.superuser
    \/ \E i \in 1..Len(SplitLines(app.allowed_methods)) :
          SplitLines(app.allowed_methods)[i] = method_name

\* api/views.py:174-177: AVAILABLE_API_FUNCTIONS[group][name] without KeyError.
FunctionExists(group, name) ==
    /\ group \in DOMAIN AVAILABLE_API_FUNCTIONS
    /\ name \in AVAILABLE_API_FUNCTIONS[group]

\* api/views.py:161-189 api_call: the outcome of one request; status
\* "raised" is an exception that leaves the view, invoked tells whether the
\* registered function was called.
ApiOutcome(app, data) ==
    LET Answer(status, type, message, invoked) ==
            [app |-> app, data |-> data, status |-> status, type |-> type,
             message |-> message, invoked |-> invoked]
    IN  IF ~({"group", "name", "args", "kwargs"} \subseteq DOMAIN data)
            THEN Answer("raised", "SuspiciousOperation", "Invalid API call",
                        FALSE)
        ELSE IF ~MethodAllowed(app, MethodName(data))
            THEN Answer("raised", "PermissionDenied", "Method not allowed",
                        FALSE)
        ELSE IF ~FunctionExists(data["group"], data["name"])
            THEN Answer("error", "ApiError", "No such function", FALSE)
        ELSE Answer("success", None, None, TRUE)

ApiCall(app, data) ==
    /\ Len(apiLog) < MaxApiCalls
    /\ apiLog' = Append(apiLog, ApiOutcome(app, data))
    /\ UNCHANGED << schemaVars, lookups, cacheVersion, storeVars, auditVars,
                    call, adminVars, nDeletes >>

\* The requests of the schema administration views.
NextAdmin ==
    \/ \E name \in ServertypeNames : AddServertype(name)
    \/ \E name \in ServertypeNames : DeleteServertype(name)
    \/ \E r \in AddForms, stype \in ServertypeNames, attrib \in AttrNames,
             form \in LinkForms :
          ManageServertypeAttrClean(r, stype, attrib, form)
    \/ \E r \in AddForms : ManageServertypeAttrSave(r)
    \/ \E stype \in ServertypeNames, attrib \in AttrNames, form \in LinkForms :
          ManageServertypeAttrEdit(stype, attrib, form)
    \/ \E stype \in ServertypeNames, attrib \in AttrNames :
          DeleteServertypeAttr(stype, attrib)
    \/ \E stype \in ServertypeNames, name \in ServertypeNames :
          CopyServertype(stype, name)
    \/ \E name \in AttrNames : DeleteAttribute(name)
    \/ \E form \in AttributeForms : AddAttribute(form)

\* The requests of the api_call view.
NextApi == \E app \in Apps, data \in ApiRequests : ApiCall(app, data)

Next ==
    \/ \E c \in Calls : DatasetCreate(c)
    \/ \E c \in Calls : RestoreDeleted(c)
    \/ \E c \in Calls : CheckHostname(c)
    \/ \E c \in Calls : InsertRow(c)
    \/ \E c \in Calls : AddAttributes(c)
    \/ \E c \in Calls : RecordAdd(c)
    \/ \E id \in DOMAIN servers : DeleteServer(id)
    \/ NextAdmin

Spec == Init /\ [][Next]_vars

\* The schema administration alone, with MaxAdminOps requests.
InitAdmin == Start /\ schemaBudget = MaxAdminOps

SpecAdmin == InitAdmin /\ [][NextAdmin]_vars

\* The api_call view alone.
SpecApi == Init /\ [][NextApi]_vars

\* ------------------------------------------------------------ the claims
\* The Add records written under the commit of call c for its hostname.
AddRecordsOf(c) ==
    {r \in adds : r.commit = call[c].commit /\ r.hostname = call[c].hostname}

\* C1: whenever a create_server call has ended, by returning or by failing
\* at any step, it has left an object in the store if and only if it has
\* left the ChangeCommit and the Add record of that creation.
C1_ObjectIffAuditRecord ==
    \A c \in Calls :
        Finished(c) =>
            (call[c].server_id # 0 <=>
                (call[c].commit # 0 /\ AddRecordsOf(c) # {}))

\* C2: no two stored server objects share a hostname, and a create_server
\* call that failed with CommitError has created nothing.
C2_HostnamesUnique ==
    /\ \A i, j \in DOMAIN servers :
          i # j => servers[i].hostname # servers[j].hostname
    /\ \A c \in Calls :
          call[c].error = "CommitError" => call[c].server_id = 0

\* C3: after every schema mutation a read of the registry gives the schema
\* the tables hold: no read observes the schema from before the change.
C3_NoStaleSchemaRead == LookupsRead = DbSchema

\* The attributes an object is created with, as the claim C4 counts them:
\* the identity fields of the input and every attribute stored with it.
FullSnapshot(c) ==
    LET given == DOMAIN call[c].attributes \cap (RequiredKeys \cup {"segment"})
    IN  [k \in DOMAIN call[c].real_attributes \cup given |->
            IF k \in given THEN call[c].attributes[k]
            ELSE call[c].real_attributes[k]]

\* C4: a create_server call that returned has appended one ChangeCommit of
\* its caller's app that owns exactly one Add record, for the created
\* hostname, whose snapshot is the full set of attributes the object was
\* created with.
C4_AddRecordIsFullSnapshot ==
    \A c \in Calls :
        call[c].pc = "done" =>
            /\ call[c].commit \in 1..Len(commits)
            /\ commits[call[c].commit].app = call[c].app
            /\ Cardinality({r \in adds : r.commit = call[c].commit}) = 1
            /\ \A r \in {x \in adds : x.commit = call[c].commit} :
                  /\ r.hostname = call[c].hostname
                  /\ DOMAIN r.attributes_json = DOMAIN FullSnapshot(c)
                  /\ \A k \in DOMAIN FullSnapshot(c) :
                        r.attributes_json[k] = FullSnapshot(c)[k]

\* The violations call c collected before the gate.
Collected(c) ==
    call[c].violations_regexp \cup call[c].violations_required
        \cup call[c].violations_attribs

\* C5: a call with skip_validation false that collected a violation failed
\* with ValidationError and persisted neither object nor audit record; a
\* call with skip_validation true that collected violations and met no
\* CommitError completed, persisting the object and its Add record.
C5_ValidationGate ==
    \A c \in Calls :
        (Finished(c) /\ Collected(c) # {}) =>
            IF call[c].skip_validation
            THEN call[c].error # "CommitError" =>
                    /\ call[c].pc = "done"
                    /\ call[c].server_id # 0
                    /\ AddRecordsOf(c) # {}
            ELSE /\ call[c].error = "ValidationError"
                 /\ call[c].server_id = 0
                 /\ call[c].commit = 0

\* The step in which call c runs create_server up to the validation gate
\* on a known servertype: lookups' is the registry the call read.
Validates(c) == call[c].pc = "idle" /\ call'[c].servertype_id # None

\* C6: create_server records attribute a as a required violation if and
\* only if a is declared required on the servertype, is scalar, is absent
\* from the input, and it is not the case that fill_defaults is set and a
\* non-empty default is configured.
C6_RequiredViolationIff ==
    [][\A c \in Calls : Validates(c) =>
        \A a \in AttrNames :
            a \in call'[c].violations_required <=>
                /\ \E l \in lookups'.stype_attrs :
                      /\ l.servertype = call'[c].servertype_id
                      /\ l.attrib = a
                      /\ l.required
                      /\ ~(call'[c].fill_defaults
                            /\ l.attrib_default \notin {"", None})
                /\ \E t \in lookups'.attributes : t.name = a /\ ~t.multi
                /\ a \notin DOMAIN call'[c].attributes]_vars

\* C7: create_server reports a key of the input, other than hostname,
\* servertype, project, intern_ip and segment, as an unknown-attribute
\* violation if and only if the key is not declared on the servertype.
C7_UnknownViolationIff ==
    [][\A c \in Calls : Validates(c) =>
        \A k \in DOMAIN call'[c].attributes
                \ {"hostname", "servertype", "project", "intern_ip", "segment"} :
            k \in call'[c].violations_attribs <=>
                ~\E l \in lookups'.stype_attrs :
                    l.servertype = call'[c].servertype_id /\ l.attrib = k]_vars

\* Whether the attribute mapping m conforms to servertype stype of schema
\* lk: every key is declared, every required scalar attribute has a value.
\* The registry holds one entry for a (servertype, attribute) pair.
Conforms(lk, stype, m) ==
    /\ \A k \in DOMAIN m :
          \E l \in lk.stype_attrs : l.servertype = stype /\ l.attrib = k
    /\ \A a \in ServertypeAttributeNames(lk, stype) :
          (StypeAttr(lk, stype, a).required /\ ~AttributeOf(lk, a).multi)
              => a \in DOMAIN m

\* C8 as claimed: every stored object whose creation has completed has only
\* keys declared on its servertype and a value for each required scalar
\* attribute of its servertype.
C8_StoredObjectsConform ==
    \A c \in Calls :
        (call[c].pc = "done" /\ call[c].server_id \in DOMAIN servers) =>
            LET o == servers[call[c].server_id]
            IN  Conforms(DbSchema, o.servertype, o.attributes)

\* C8 as amended: a create_server call with skip_validation false that
\* passes the validation gate goes on with an attribute mapping that
\* conforms to its servertype in the registry the call read, and the values
\* it then stores are those of that mapping (none for an empty sequence).
C8_ValidatedCreateConforms ==
    [][\A c \in Calls :
        /\ (Validates(c) /\ call'[c].pc = "check"
                /\ ~call'[c].skip_validation)
              => Conforms(lookups', call'[c].servertype_id,
                          call'[c].real_attributes)
        /\ (call[c].pc = "attrs" /\ call'[c].pc = "audit")
              => LET stored == servers'[call[c].server_id].attributes
                     real == call[c].real_attributes
                 IN  /\ DOMAIN stored \subseteq DOMAIN real
                     /\ \A k \in DOMAIN stored : stored[k] = real[k]
                     /\ \A k \in DOMAIN real \ DOMAIN stored :
                           real[k] = <<>>]_vars

C8_Witness ==
    \E c \in Calls :
        /\ call[c].pc = "done"
        /\ ~call[c].skip_validation
        /\ call[c].server_id \in DOMAIN servers
        /\ DOMAIN servers[call[c].server_id].attributes # {}

\* C9: a restore of a deleted object ends either with a new object, under
\* a new id, whose hostname, identity fields and attributes are those of
\* the deleted object, or with a CommitError and nothing written.
C9_RestoreRoundTrip ==
    [][\A c \in Calls :
        (/\ call'[c].via = "restore"
         /\ call[c].pc \notin {"done", "failed"}
         /\ call'[c].pc \in {"done", "failed"}) =>
            IF call'[c].pc = "done"
            THEN /\ call'[c].server_id # call'[c].change
                 /\ call'[c].server_id \in DOMAIN servers'
                 /\ LET snap == DeletedSnapshot(servers'[call'[c].server_id])
                    IN  /\ DOMAIN snap = DOMAIN call'[c].attributes
                        /\ \A k \in DOMAIN snap :
                              snap[k] = call'[c].attributes[k]
            ELSE /\ call'[c].error = "CommitError"
                 /\ call'[c].server_id = 0
                 /\ call'[c].commit = 0]_vars

\* The positions in the IPRange table of the ranges that contain ip.
ContainingRanges(ip) ==
    {i \in 1..Len(IPRanges) : IPRanges[i].min <= ip /\ ip <= IPRanges[i].max}

FirstContaining(ip) ==
    CHOOSE i \in ContainingRanges(ip) : \A j \in ContainingRanges(ip) : i <= j

\* C10 as claimed: an object created from an input that supplies a segment
\* value has exactly that segment.
C10_SuppliedSegmentWins ==
    \A c \in Calls :
        (/\ call[c].server_id \in DOMAIN servers
         /\ "segment" \in DOMAIN call[c].attributes) =>
            servers[call[c].server_id].segment = call[c].attributes["segment"]

\* C10 as amended: an object created from an input with a non-empty
\* segment value has exactly that segment; with the segment absent or
\* empty it has the segment of the first IP range that contains intern_ip,
\* and if no range contains it the call fails with CommitError and leaves
\* no object and no audit record.
C10_SegmentResolution ==
    \A c \in Calls :
        LET a == call[c].attributes
            supplied == "segment" \in DOMAIN a /\ a["segment"] \notin {"", None}
            ip == ip_address(a["intern_ip"])
        IN  /\ call[c].server_id \in DOMAIN servers =>
                  servers[call[c].server_id].segment =
                      IF supplied THEN a["segment"]
                      ELSE IPRanges[FirstContaining(ip)].segment
            /\ (/\ call[c].pc # "idle"
                /\ RequiredKeys \subseteq DOMAIN a
                /\ ~supplied
                /\ ContainingRanges(ip) = {}) =>
                  /\ call[c].pc = "failed"
                  /\ call[c].error = "CommitError"
                  /\ call[c].server_id = 0
                  /\ call[c].commit = 0

C10_Witness ==
    \E c \in Calls :
        /\ call[c].pc = "done"
        /\ "segment" \notin DOMAIN call[c].attributes
        /\ Cardinality(ContainingRanges(call[c].intern_ip)) > 1
        /\ call[c].server_id \in DOMAIN servers
        /\ servers[call[c].server_id].segment = "seg1"

C12_ApiErrorsStructured ==
    \A c \in Calls :
        (call[c].via = "api" /\ Finished(c)) =>
            /\ DatasetCreateResult(c).status \in {"success", "error"}
            /\ call[c].pc = "failed" =>
                  /\ DatasetCreateResult(c).status = "error"
                  /\ DatasetCreateResult(c).type = call[c].error

\* C13: after every step each (servertype, attribute) pair has at most one
\* ServertypeAttribute link, whatever the interleaving of the add requests,
\* and an add request posted for a pair that is already linked is rejected
\* and changes nothing.
C13_OneLinkPerPair ==
    [][/\ \A stype \in ServertypeNames, attrib \in AttrNames :
             Cardinality({l \in dbLinks' :
                             l.servertype = stype /\ l.attrib = attrib}) <= 1
       /\ \A r \in AddForms :
             (/\ addForm[r].pc = "idle" /\ addForm'[r].pc # "idle"
              /\ \E l \in dbLinks : /\ l.servertype = addForm'[r].stype
                                    /\ l.attrib = addForm'[r].attrib) =>
                 /\ addForm'[r].pc = "rejected"
                 /\ UNCHANGED << schemaVars, lookups, cacheVersion >>]_vars

\* C16: api_call invokes a registered function only for a superuser app or
\* a method listed in the app's allowed_methods; for any other well-formed
\* request the outcome is PermissionDenied with nothing invoked, whether
\* or not the function exists; an allowed call of a function that does not
\* exist is answered with the structured ApiError 'No such function'.
C16_PermissionBeforeDispatch ==
    \A i \in 1..Len(apiLog) :
        LET e == apiLog[i]
            wellformed == {"group", "name", "args", "kwargs"}
                              \subseteq DOMAIN e.data
            method == e.data["group"] \o "." \o e.data["name"]
            listed == \E k \in 1..Len(SplitLines(e.app.allowed_methods)) :
                          SplitLines(e.app.allowed_methods)[k] = method
            exists == /\ e.data["group"] \in DOMAIN AVAILABLE_API_FUNCTIONS
                      /\ e.data["name"]
                            \in AVAILABLE_API_FUNCTIONS[e.data["group"]]
        IN  /\ e.invoked => (wellformed /\ (e.app.superuser \/ listed))
            /\ (wellformed /\ ~e.app.superuser /\ ~listed) =>
                  /\ e.status = "raised" /\ e.type = "PermissionDenied"
                  /\ ~e.invoked
            /\ (wellformed /\ (e.app.superuser \/ listed) /\ ~exists) =>
                  /\ e.status = "error" /\ e.type = "ApiError"
                  /\ e.message = "No such function"
                  /\ ~e.invoked

C16_Witness ==
    \E i, j \in 1..Len(apiLog) :
        /\ apiLog[i].app.name = "tool"
        /\ apiLog[i].data = ApiData("ip", "reserve")
        /\ apiLog[i].type = "PermissionDenied"
        /\ apiLog[j].app.name = "tool"
        /\ apiLog[j].data = ApiData("ip", "gone")
        /\ apiLog[j].type = "ApiError"

\* C14: for an attribute declared on the servertype, in the registry the
\* call read: absent from the input, a multi attribute with no configured
\* default becomes the empty sequence, and an optional scalar attribute
\* gets its configured default if and only if fill_defaults_all is set and
\* the default is not empty; an attribute the call did not end up with
\* appears neither in the stored object nor in the Add snapshot; present in
\* the input, the attribute is not overwritten by a default.
C14_DefaultFilling ==
    [][\A c \in Calls :
        /\ Validates(c) =>
              \A l \in {x \in lookups'.stype_attrs :
                            x.servertype = call'[c].servertype_id} :
              \A t \in {x \in lookups'.attributes : x.name = l.attrib} :
                  LET a == l.attrib
                      real == call'[c].real_attributes
                      nodefault == l.attrib_default \in {"", None}
                  IN  IF a \in DOMAIN call'[c].attributes
                      THEN a \in DOMAIN real =>
                               real[a] = call'[c].attributes[a]
                      ELSE /\ (t.multi /\ nodefault) =>
                                 (a \in DOMAIN real /\ real[a] = << >>)
                           /\ (~t.multi /\ ~l.required) =>
                                 /\ a \in DOMAIN real <=>
                                       (call'[c].fill_defaults_all /\ ~nodefault)
                                 /\ a \in DOMAIN real =>
                                       real[a] = l.attrib_default
        /\ (call[c].pc = "attrs" /\ call'[c].pc = "audit") =>
              DOMAIN servers'[call[c].server_id].attributes
                  \subseteq DOMAIN call[c].real_attributes
        /\ (call[c].pc = "audit" /\ call'[c].pc = "done") =>
              \A r \in adds' \ adds :
                  DOMAIN r.attributes_json \cap AttrNames
                      = DOMAIN call[c].real_attributes \cap AttrNames]_vars

\* C15: a step that removes the link of attribute a from servertype S, both
\* staying in the schema (a confirmed delete_servertype_attr(S, a)), leaves
\* no object of servertype S with a stored value for a and no (S, a) link,
\* and changes neither the values of a on objects of other servertypes,
\* nor any other value, nor any other link.
C15_DeleteServertypeAttrCascades ==
    [][\A S \in ServertypeNames, a \in AttrNames :
        (/\ \E l \in dbLinks : l.servertype = S /\ l.attrib = a
         /\ ~\E l \in dbLinks' : l.servertype = S /\ l.attrib = a
         /\ S \in dbServertypes'
         /\ a \in {t.name : t \in dbAttributes'}) =>
            /\ dbLinks' = {l \in dbLinks : ~(l.servertype = S /\ l.attrib = a)}
            /\ DOMAIN servers' = DOMAIN servers
            /\ \A i \in DOMAIN servers :
                  IF servers[i].servertype = S
                  THEN /\ a \notin DOMAIN servers'[i].attributes
                       /\ servers'[i] = [servers[i] EXCEPT !.attributes =
                              [k \in DOMAIN servers[i].attributes \ {a}
                                  |-> servers[i].attributes[k]]]
                  ELSE servers'[i] = servers[i]]_vars

\* An object of vm has lost its value of os by the deletion of the link
\* (vm, os) while an object of hw has kept its value of os.
C15_Witness ==
    /\ ~\E l \in dbLinks : l.servertype = "vm" /\ l.attrib = "os"
    /\ \E c, d \in Calls :
          /\ call[c].pc = "done" /\ call[d].pc = "done"
          /\ call[c].server_id \in DOMAIN servers
          /\ call[d].server_id \in DOMAIN servers
          /\ servers[call[c].server_id].servertype = "vm"
          /\ "os" \in DOMAIN call[c].real_attributes
          /\ "os" \notin DOMAIN servers[call[c].server_id].attributes
          /\ servers[call[d].server_id].servertype = "hw"
          /\ "os" \in DOMAIN servers[call[d].server_id].attributes

====
